---- MODULE Spec2Model ----
(***************************************************************************)
(* CursorPoseTrackingSystem (src/src/systems/cursor-pose-tracking.js):     *)
(* a registry of (object3D, path) pairs and a per-frame tick() that copies *)
(* the pose the user-input system reports for each path into the paired    *)
(* object3D.                                                               *)
(*                                                                         *)
(* tick() is modelled statement by statement (loop test, provider query,   *)
(* body) so that a call made from inside the provider query can be placed  *)
(* between two statements of the sweep.  Only one handler runs at a time   *)
(* (JavaScript is single threaded): register, unregister and the provider  *)
(* updates are enabled only while no tick() is in progress.                *)
(***************************************************************************)
EXTENDS Integers, Sequences, FiniteSets, TLC

\* ------------------------------------------------------------------ bounds

\* Largest number of pairs the registry is allowed to grow to in the model.
MaxPairs == 3

\* ------------------------------------------------------------- input sets

\* The object3D references handed to register/unregister (compared by identity).
Nodes == {"n1", "n2"}

\* The paths handed to register and looked up in the user-input system.
Paths == {"p1", "p2"}

\* A falsy result of userinput.get(path): no pose for that path this frame.
Absent == << >>

\* 4x4 matrices are the 16 elements of THREE.Matrix4, column-major
\* (te[k] of the source is m[k+1] here).
Identity == << 1, 0, 0, 0,   0, 1, 0, 0,   0, 0, 1, 0,   0, 0, 0, 1 >>

\* Translation by (1, 2, 3).
PoseA == << 1, 0, 0, 0,   0, 1, 0, 0,   0, 0, 1, 0,   1, 2, 3, 1 >>

\* Half turn about the y axis, uniform scale 2, translation (0, 1, 0).
PoseB == << -2, 0, 0, 0,   0, 2, 0, 0,   0, 0, -2, 0,   0, 1, 0, 1 >>

\* The matrices the user-input system can report for a path.
Transforms == {PoseA, PoseB}

\* ------------------------------------------------- THREE.Matrix4.decompose

RECURSIVE SqrtFrom(_, _)
\* Math.sqrt on the perfect squares the poses above produce.
SqrtFrom(n, r) == IF r * r >= n THEN r ELSE SqrtFrom(n, r + 1)

Sqrt(n) == SqrtFrom(n, 0)

\* Vector3.length of the column starting at element k.
ColumnLength(m, k) == Sqrt(m[k] * m[k] + m[k + 1] * m[k + 1] + m[k + 2] * m[k + 2])

\* Matrix4.determinant.
Determinant(m) ==
  LET n11 == m[1]  n12 == m[5]  n13 == m[9]   n14 == m[13]
      n21 == m[2]  n22 == m[6]  n23 == m[10]  n24 == m[14]
      n31 == m[3]  n32 == m[7]  n33 == m[11]  n34 == m[15]
      n41 == m[4]  n42 == m[8]  n43 == m[12]  n44 == m[16]
  IN  n41 * (  n14 * n23 * n32 - n13 * n24 * n32 - n14 * n22 * n33
             + n12 * n24 * n33 + n13 * n22 * n34 - n12 * n23 * n34)
    + n42 * (  n11 * n23 * n34 - n11 * n24 * n33 + n14 * n21 * n33
             - n13 * n21 * n34 + n13 * n24 * n31 - n14 * n23 * n31)
    + n43 * (  n11 * n24 * n32 - n11 * n22 * n34 - n14 * n21 * n32
             + n12 * n21 * n34 + n14 * n22 * n31 - n12 * n24 * n31)
    + n44 * (- n13 * n22 * n31 - n11 * n23 * n32 + n11 * n22 * n33
             + n13 * n21 * n32 - n12 * n21 * n33 + n12 * n23 * n31)

\* Quaternion.setFromRotationMatrix on the 3x3 rotation r (row-major
\* <<m11, m12, m13, m21, ..., m33>>), as <<x, y, z, w>>.  The divisions are
\* exact on the poses above.
SetFromRotationMatrix(r) ==
  LET m11 == r[1]  m12 == r[2]  m13 == r[3]
      m21 == r[4]  m22 == r[5]  m23 == r[6]
      m31 == r[7]  m32 == r[8]  m33 == r[9]
      trace == m11 + m22 + m33
  IN  IF trace > 0
        THEN LET q == Sqrt(trace + 1)
             IN  << (m32 - m23) \div (2 * q), (m13 - m31) \div (2 * q),
                    (m21 - m12) \div (2 * q), q \div 2 >>
      ELSE IF m11 > m22 /\ m11 > m33
        THEN LET s == 2 * Sqrt(1 + m11 - m22 - m33)
             IN  << s \div 4, (m12 + m21) \div s, (m13 + m31) \div s, (m32 - m23) \div s >>
      ELSE IF m22 > m33
        THEN LET s == 2 * Sqrt(1 + m22 - m11 - m33)
             IN  << (m12 + m21) \div s, s \div 4, (m23 + m32) \div s, (m13 - m31) \div s >>
      ELSE   LET s == 2 * Sqrt(1 + m33 - m11 - m22)
             IN  << (m13 + m31) \div s, (m23 + m32) \div s, s \div 4, (m21 - m12) \div s >>

\* Matrix4.decompose(position, quaternion, scale): the three values it writes.
Decompose(m) ==
  LET len == ColumnLength(m, 1)
      sx  == IF Determinant(m) < 0 THEN -len ELSE len
      sy  == ColumnLength(m, 5)
      sz  == ColumnLength(m, 9)
      rot == << m[1] \div sx, m[5] \div sy, m[9]  \div sz,
                m[2] \div sx, m[6] \div sy, m[10] \div sz,
                m[3] \div sx, m[7] \div sy, m[11] \div sz >>
  IN  [ position   |-> << m[13], m[14], m[15] >>,
        quaternion |-> SetFromRotationMatrix(rot),
        scale      |-> << sx, sy, sz >> ]

\* ------------------------------------------------------------ object3D

\* A freshly constructed object3D: identity transform, both flags unset.
FreshNode ==
  [ matrix |-> Identity,
    position |-> << 0, 0, 0 >>, quaternion |-> << 0, 0, 0, 1 >>, scale |-> << 1, 1, 1 >>,
    matrixIsModified |-> FALSE, matrixWorldNeedsUpdate |-> FALSE ]

VARIABLES
  pairs,      \* this.pairs: sequence of [object3D, path]
  nodes,      \* the fields of each object3D that tick() writes
  userinput,  \* AFRAME.scenes[0].systems.userinput: [available, frame]
  pc,         \* "idle", or the position of the running tick(): "loop", "body"
  i,          \* tick()'s loop variable
  matrix,     \* tick()'s local constant, the result of the last get()
  last,       \* the call that ran last (or is running): [op, object3D, path, outcome]
  pre,        \* history: pairs, nodes and userinput when that call started
  visited,    \* history: the pairs the running/last tick() looked up, with the result
  applied,    \* history: the writes the running/last tick() made, in order
  stale,      \* history: the pairs of the last tick() that met no provider,
              \*          less those unregistered since
  gone        \* history: the object3Ds unregistered and not registered since

vars == << pairs, nodes, userinput, pc, i, matrix, last, pre, visited, applied, stale,
           gone >>

\* The answers the user-input system can give in one frame.
Frames == [Paths -> Transforms \cup {Absent}]

NoFrame == [p \in Paths |-> Absent]

Link(o, path) == [object3D |-> o, path |-> path]

Call(op, o, path, outcome) == [op |-> op, object3D |-> o, path |-> path, outcome |-> outcome]

Snapshot == [pairs |-> pairs, nodes |-> nodes, userinput |-> userinput]

\* constructor(): this.pairs = [].
Init ==
  /\ pairs = << >>
  /\ nodes = [n \in Nodes |-> FreshNode]
  /\ userinput = [available |-> FALSE, frame |-> NoFrame]
  /\ pc = "idle"
  /\ i = 0
  /\ matrix = Absent
  /\ last = Call("none", "-", "-", "returned")
  /\ pre = [pairs |-> << >>, nodes |-> nodes, userinput |-> userinput]
  /\ visited = << >>
  /\ applied = << >>
  /\ stale = << >>
  /\ gone = {}

\* ------------------------------------------------------- registry

\* A push that skips a pair the registry already holds.
pairs_push_dedup(ps, o, path) ==
  IF \E k \in DOMAIN ps : ps[k] = Link(o, path) THEN ps ELSE Append(ps, Link(o, path))

\* this.pairs.push({ object3D, path })
pairs_push(ps, o, path) == Append(ps, Link(o, path))

\* The sequence ps without its element at index k (ps itself if k is no index).
RemoveAt(ps, k) == [j \in 1 .. (Len(ps) - (IF k \in DOMAIN ps THEN 1 ELSE 0)) |->
                      IF j < k THEN ps[j] ELSE ps[j + 1]]

\* The indices of the pairs of ps whose object3D is o.
Matches(ps, o) == {k \in DOMAIN ps : ps[k].object3D = o}

\* An unregister that removes only the most recently registered pair of o.
pairs_filter_latest(ps, o) ==
  IF Matches(ps, o) = {} THEN ps
  ELSE RemoveAt(ps, CHOOSE k \in Matches(ps, o) : \A j \in Matches(ps, o) : j <= k)

\* An unregister written as this.pairs.splice(this.pairs.findIndex(...), 1):
\* findIndex is -1 without a match, and splice(-1, 1) removes the last pair.
pairs_filter_splice(ps, o) ==
  IF Matches(ps, o) = {} THEN RemoveAt(ps, Len(ps))
  ELSE RemoveAt(ps, CHOOSE k \in Matches(ps, o) : \A j \in Matches(ps, o) : k <= j)

\* An unregister whose predicate is inverted (===): it keeps the pairs of o.
pairs_filter_inverted(ps, o) == SelectSeq(ps, LAMBDA p : p.object3D = o)

\* An unregister that also drops the pairs of other object3Ds that share a
\* path with a pair of o.
pairs_filter_by_path(ps, o) ==
  SelectSeq(ps, LAMBDA p : \A k \in Matches(ps, o) : ps[k].path # p.path)

\* this.pairs.filter(p => p.object3D !== object3D)
pairs_filter(ps, o) == SelectSeq(ps, LAMBDA p : p.object3D # o)

register(o, path) ==
  /\ pc = "idle"
  /\ Len(pairs) < MaxPairs
  /\ pairs' = pairs_push(pairs, o, path)
  /\ gone' = gone \ {o}
  /\ last' = Call("register", o, path, "returned")
  /\ pre' = Snapshot
  /\ visited' = << >>
  /\ applied' = << >>
  /\ UNCHANGED << nodes, userinput, pc, i, matrix, stale >>

unregister(o) ==
  /\ pc = "idle"
  /\ pairs' = pairs_filter(pairs, o)
  /\ stale' = pairs_filter(stale, o)
  /\ gone' = gone \cup {o}
  /\ last' = Call("unregister", o, "-", "returned")
  /\ pre' = Snapshot
  /\ visited' = << >>
  /\ applied' = << >>
  /\ UNCHANGED << nodes, userinput, pc, i, matrix >>

\* ------------------------------------------------- user-input system

\* A step of the host outside this system: the history of the last call ends.
host_step ==
  /\ last' = Call("host", "-", "-", "returned")
  /\ pre' = [pairs |-> pairs, nodes |-> nodes, userinput |-> userinput']
  /\ visited' = << >>
  /\ applied' = << >>

\* The host initialises the user-input system: from now on
\* AFRAME.scenes[0].systems.userinput is defined.
userinput_init ==
  /\ pc = "idle"
  /\ ~userinput.available
  /\ \E f \in Frames : userinput' = [available |-> TRUE, frame |-> f]
  /\ host_step
  /\ UNCHANGED << pairs, nodes, pc, i, matrix, stale, gone >>

\* The user-input system computes the next frame's poses.
userinput_frame ==
  /\ pc = "idle"
  /\ userinput.available
  /\ \E f \in Frames : f # userinput.frame /\ userinput' = [userinput EXCEPT !.frame = f]
  /\ host_step
  /\ UNCHANGED << pairs, nodes, pc, i, matrix, stale, gone >>

\* ------------------------------------------------------------- tick

\* A sweep that indexes the registry from its end.
pairs_at_reverse(ps, k) == ps[Len(ps) - k]

\* this.pairs[i]
pairs_at(ps, k) == ps[k + 1]

\* if (matrix)
truthy(m) == m # Absent

\* A body that decomposes o.matrix before copying the new matrix into it.
write_pose_stale(o, m) ==
  LET d == Decompose(o.matrix)
  IN  [o EXCEPT !.matrix = m,
                !.position = d.position, !.quaternion = d.quaternion, !.scale = d.scale,
                !.matrixIsModified = TRUE, !.matrixWorldNeedsUpdate = TRUE]

\* A body that writes position and quaternion and keeps the scale o had.
write_pose_keep_scale(o, m) ==
  LET d == Decompose(m)
  IN  [o EXCEPT !.matrix = m, !.position = d.position, !.quaternion = d.quaternion,
                !.matrixIsModified = TRUE, !.matrixWorldNeedsUpdate = TRUE]

\* A body that applies the pose as a movement from where o.matrix is: the
\* translation of the new matrix is added to the one o.matrix holds.
write_pose_delta(o, m) ==
  LET moved == [k \in 1 .. 16 |-> IF k \in 13 .. 15 THEN o.matrix[k] + m[k] ELSE m[k]]
      d     == Decompose(moved)
  IN  [o EXCEPT !.matrix = moved,
                !.position = d.position, !.quaternion = d.quaternion, !.scale = d.scale,
                !.matrixIsModified = TRUE, !.matrixWorldNeedsUpdate = TRUE]

\* o.matrix.copy(matrix); o.matrix.decompose(o.position, o.quaternion, o.scale);
\* o.matrixIsModified = true; o.matrixWorldNeedsUpdate = true;
write_pose(o, m) ==
  LET copied == [o EXCEPT !.matrix = m]
      d      == Decompose(copied.matrix)
  IN  [copied EXCEPT !.position = d.position, !.quaternion = d.quaternion,
                     !.scale = d.scale,
                     !.matrixIsModified = TRUE, !.matrixWorldNeedsUpdate = TRUE]

\* A body that sets the two flags outside the if.
tick_body_dirty(ns, ps, k, m) ==
  LET o == pairs_at(ps, k).object3D
  IN  IF truthy(m)
        THEN [ns EXCEPT ![o] = write_pose(ns[o], m)]
        ELSE [ns EXCEPT ![o].matrixIsModified = TRUE, ![o].matrixWorldNeedsUpdate = TRUE]

\* The body of the loop: if (matrix) { const o = this.pairs[i].object3D; ... }
tick_body(ns, ps, k, m) ==
  IF truthy(m)
    THEN LET o == pairs_at(ps, k).object3D
         IN  [ns EXCEPT ![o] = write_pose(ns[o], m)]
    ELSE ns

\* A loop that ends the sweep (break) at the first path without a pose.
loop_next_break(ps, k, m) == IF truthy(m) THEN k + 1 ELSE Len(ps)

\* A loop that does not look a path up again when the next pair has the path
\* of the pair just handled.
loop_next_skip_shared(ps, k, m) ==
  IF k + 2 <= Len(ps) /\ ps[k + 2].path = ps[k + 1].path THEN k + 2 ELSE k + 1

\* i++ at the end of an iteration, whatever the body did.
loop_next(ps, k, m) == k + 1

RECURSIVE tick_sweep(_, _, _, _)
\* tick() run from i = k to its return over the registry ps, with a user-input
\* system that answers f and calls nothing back: the object3Ds it leaves.
tick_sweep(ns, ps, f, k) ==
  IF k >= Len(ps) THEN ns
  ELSE LET m == f[pairs_at(ps, k).path]
       IN  tick_sweep(tick_body(ns, ps, k, m), ps, f, loop_next(ps, k, m))

\* What a call made from inside userinput.get() does to this.pairs.
NoEffect == [kind |-> "none", object3D |-> "-", path |-> "-"]

Effects ==
  {NoEffect}
    \cup {[kind |-> "register", object3D |-> o, path |-> p] : o \in Nodes, p \in Paths}
    \cup {[kind |-> "unregister", object3D |-> o, path |-> "-"] : o \in Nodes}

effect(ps, e) ==
  CASE e.kind = "none"       -> ps
    [] e.kind = "register"   -> pairs_push(ps, e.object3D, e.path)
    [] e.kind = "unregister" -> pairs_filter(ps, e.object3D)

\* tick() is called.
tick_enter ==
  /\ pc = "idle"
  /\ pc' = "loop"
  /\ i' = 0
  /\ matrix' = Absent
  /\ last' = Call("tick", "-", "-", "running")
  /\ pre' = Snapshot
  /\ visited' = << >>
  /\ applied' = << >>
  /\ UNCHANGED << pairs, nodes, userinput, stale, gone >>

\* A tick() that empties the registry when it fails.
tick_leave_reset(outcome) ==
  /\ pairs' = IF outcome = "raised" THEN << >> ELSE pairs
  /\ pc' = "idle"
  /\ i' = 0
  /\ matrix' = Absent
  /\ last' = [last EXCEPT !.outcome = outcome]

\* A tick() that, on its way out, drops the pairs whose path has no pose.
tick_leave_prune(outcome) ==
  /\ pairs' = SelectSeq(pairs, LAMBDA p : truthy(userinput.frame[p.path]))
  /\ pc' = "idle"
  /\ i' = 0
  /\ matrix' = Absent
  /\ last' = [last EXCEPT !.outcome = outcome]

\* tick() is left, by a return or by an uncaught TypeError; neither touches
\* this.pairs.
tick_leave(outcome) ==
  /\ pairs' = pairs
  /\ pc' = "idle"
  /\ i' = 0
  /\ matrix' = Absent
  /\ last' = [last EXCEPT !.outcome = outcome]

\* i < this.pairs.length holds; const matrix = ...userinput.get(this.pairs[i].path),
\* during which the call e may run.
tick_query(e) ==
  /\ pc = "loop"
  /\ i < Len(pairs)
  /\ IF ~userinput.available
       THEN \* systems.userinput is undefined: reading .get of it throws
            /\ e = NoEffect
            /\ tick_leave("raised")
            /\ stale' = pairs
            /\ UNCHANGED << nodes, userinput, pre, visited, applied, gone >>
       ELSE /\ e.kind = "register" => Len(pairs) < MaxPairs
            /\ matrix' = userinput.frame[pairs_at(pairs, i).path]
            /\ visited' = Append(visited, [link |-> pairs_at(pairs, i), matrix |-> matrix'])
            /\ pairs' = effect(pairs, e)
            /\ stale' = IF e.kind = "unregister" THEN pairs_filter(stale, e.object3D) ELSE stale
            /\ gone' = CASE e.kind = "none"       -> gone
                         [] e.kind = "register"   -> gone \ {e.object3D}
                         [] e.kind = "unregister" -> gone \cup {e.object3D}
            /\ pc' = "body"
            /\ UNCHANGED << nodes, userinput, i, last, pre, applied >>

\* The provider query of a user-input system that calls nothing back.
tick_get == tick_query(NoEffect)

\* The provider query of a user-input system that registers or unregisters
\* from inside get().
tick_get_reentrant == \E e \in Effects \ {NoEffect} : tick_query(e)

\* if (matrix) { const o = this.pairs[i].object3D; ... }  and i++.
tick_apply ==
  /\ pc = "body"
  /\ IF truthy(matrix) /\ i >= Len(pairs)
       THEN \* this.pairs[i] is undefined: reading .object3D of it throws
            /\ tick_leave("raised")
            /\ UNCHANGED << nodes, userinput, pre, visited, applied, stale, gone >>
       ELSE /\ nodes' = tick_body(nodes, pairs, i, matrix)
            /\ applied' = IF truthy(matrix)
                            THEN Append(applied, [object3D |-> pairs_at(pairs, i).object3D,
                                                  matrix |-> matrix])
                            ELSE applied
            /\ i' = loop_next(pairs, i, matrix)
            /\ pc' = "loop"
            /\ UNCHANGED << pairs, userinput, matrix, last, pre, visited, stale, gone >>

\* i < this.pairs.length fails: tick() returns.
tick_return ==
  /\ pc = "loop"
  /\ i >= Len(pairs)
  /\ tick_leave("returned")
  /\ UNCHANGED << nodes, userinput, pre, visited, applied, stale, gone >>

\* ---------------------------------------------------- specifications

\* The program as it runs: userinput.get() is a plain lookup.
Next ==
  \/ \E o \in Nodes, path \in Paths : register(o, path)
  \/ \E o \in Nodes : unregister(o)
  \/ userinput_init
  \/ userinput_frame
  \/ tick_enter
  \/ tick_get
  \/ tick_apply
  \/ tick_return

Spec == Init /\ [][Next]_vars

\* The program with a user-input system whose get() may call register or
\* unregister.
NextReentrant ==
  \/ Next
  \/ tick_get_reentrant

SpecReentrant == Init /\ [][NextReentrant]_vars

\* ------------------------------------------------------------ properties

\* C1: after unregister(N) the registry holds no pair whose object3D is N,
\* however many pairs of N it held before and whatever ran before.
C1_UnregisterRemovesAll ==
  last.op = "unregister" => Matches(pairs, last.object3D) = {}

\* unregister(N) has run on a registry with two pairs of N, the most recently
\* registered pair among them, and a pair of another object3D.
C1_Witness ==
  /\ last.op = "unregister"
  /\ Cardinality(Matches(pre.pairs, last.object3D)) >= 2
  /\ Len(pre.pairs) \in Matches(pre.pairs, last.object3D)
  /\ pairs # << >>

\* C2: a tick() that runs while the user-input system is not there yet does not
\* raise and leaves every object3D as it was.
C2_TickWithoutProvider ==
  (last.op = "tick" /\ ~pre.userinput.available) =>
    /\ last.outcome # "raised"
    /\ nodes = pre.nodes

\* The last call was a tick() that has returned.
TickReturned == last.op = "tick" /\ last.outcome = "returned"

\* What the user-input system answered for each path during the last tick().
Answer(path) == pre.userinput.frame[path]

\* The pairs of ps whose path had a pose during the last tick().
Answered(ps) == {k \in DOMAIN ps : truthy(Answer(ps[k].path))}

\* The object3D n is in the state a write of the matrix t leaves it in.
Posed(n, t) ==
  /\ n.matrix = t
  /\ n.position = Decompose(t).position
  /\ n.quaternion = Decompose(t).quaternion
  /\ n.scale = Decompose(t).scale
  /\ n.matrixIsModified
  /\ n.matrixWorldNeedsUpdate

\* The pairs a tick() looked up, in the order of the lookups.
VisitedLinks == [k \in DOMAIN visited |-> visited[k].link]

\* C3: the pairs a tick() looks up are, in set and in order, the registry as it
\* was when the tick() started, also when userinput.get() registers or
\* unregisters during the sweep.
C3_StableSnapshot ==
  (last.op = "tick" /\ last.outcome # "running" /\ pre.userinput.available) =>
    VisitedLinks = pre.pairs

\* C4 as claimed: after tick() every pair whose path had a pose T has its
\* object3D in the state a write of T leaves.
C4_EveryLinkPosed ==
  TickReturned =>
    \A k \in Answered(pairs) : Posed(nodes[pairs[k].object3D], Answer(pairs[k].path))

\* C4 as amended: after tick() every pair whose path had a pose T, and which no
\* later pair of the same object3D with a pose follows in the registry, has its
\* object3D's matrix equal to T, position, quaternion and scale equal to the
\* decomposition of T, and both flags set.
C4_LastLinkPosed ==
  TickReturned =>
    \A k \in Answered(pairs) :
      (\A j \in Answered(pairs) : j > k => pairs[j].object3D # pairs[k].object3D) =>
        Posed(nodes[pairs[k].object3D], Answer(pairs[k].path))

\* tick() has returned after posing an object3D that held another pose before,
\* from a pair that an earlier pair of the same object3D with a different pose
\* precedes.
C4_Witness ==
  /\ TickReturned
  /\ \E k \in Answered(pairs) :
       /\ \A j \in Answered(pairs) : j > k => pairs[j].object3D # pairs[k].object3D
       /\ \E j \in Answered(pairs) :
            /\ j < k
            /\ pairs[j].object3D = pairs[k].object3D
            /\ Answer(pairs[j].path) # Answer(pairs[k].path)
       /\ pre.nodes[pairs[k].object3D].matrixIsModified
       /\ pre.nodes[pairs[k].object3D].matrix # Answer(pairs[k].path)

\* C5: a tick() for which the user-input system is there and has no pose for any
\* path leaves matrix, position, quaternion, scale and both flags of every
\* object3D as they were.
C5_AbsentLeavesNodes ==
  (last.op = "tick" /\ pre.userinput.available /\ \A p \in Paths : ~truthy(Answer(p))) =>
    nodes = pre.nodes

\* Such a tick() has returned after looking up two pairs, one of an object3D
\* whose flags are clear and one of an object3D posed earlier.
C5_Witness ==
  /\ TickReturned
  /\ pre.userinput.available
  /\ \A p \in Paths : ~truthy(Answer(p))
  /\ Len(visited) >= 2
  /\ \E k \in DOMAIN pairs : ~nodes[pairs[k].object3D].matrixWorldNeedsUpdate
  /\ \E k \in DOMAIN pairs : nodes[pairs[k].object3D].matrix # Identity

\* The writes the last tick() made to the object3D o, in order.
AppliedTo(o) == SelectSeq(applied, LAMBDA a : a.object3D = o)

\* C6: when an object3D is registered twice, with two paths that both have a
\* pose, tick() looks the pairs up in registration order, writes the first
\* pair's pose and then the second's, and leaves the object3D with the second's.
C6_SecondRegistrationWins ==
  TickReturned =>
    /\ VisitedLinks = pairs
    /\ \A k1, k2 \in Answered(pairs) :
         ( /\ k1 < k2
           /\ pairs[k1].object3D = pairs[k2].object3D
           /\ pairs[k1].path # pairs[k2].path
           /\ Matches(pairs, pairs[k1].object3D) = {k1, k2} ) =>
             /\ AppliedTo(pairs[k1].object3D) =
                  << [object3D |-> pairs[k1].object3D, matrix |-> Answer(pairs[k1].path)],
                     [object3D |-> pairs[k2].object3D, matrix |-> Answer(pairs[k2].path)] >>
             /\ Posed(nodes[pairs[k2].object3D], Answer(pairs[k2].path))

\* tick() has returned on a registry that holds one object3D twice, with two
\* paths that had different poses, and a pair of another object3D in between.
C6_Witness ==
  /\ TickReturned
  /\ \E k1, k2 \in Answered(pairs) :
       /\ k2 > k1 + 1
       /\ pairs[k1].object3D = pairs[k2].object3D
       /\ pairs[k1].path # pairs[k2].path
       /\ Answer(pairs[k1].path) # Answer(pairs[k2].path)
       /\ Matches(pairs, pairs[k1].object3D) = {k1, k2}

\* C7: unregister(N) on a registry without a pair of N leaves the registry (the
\* same pairs in the same order) and every object3D as they were, and returns.
C7_UnregisterAbsentNoop ==
  (last.op = "unregister" /\ Matches(pre.pairs, last.object3D) = {}) =>
    /\ pairs = pre.pairs
    /\ nodes = pre.nodes
    /\ last.outcome = "returned"

\* unregister(N) has run on a registry of two pairs, neither of them N's.
C7_Witness ==
  /\ last.op = "unregister"
  /\ Matches(pre.pairs, last.object3D) = {}
  /\ Len(pre.pairs) >= 2

\* C8: register(node, path) returns, and all it does is append the one pair
\* (node, path) to the registry: the pairs held before stay, in order, in front
\* of it (also when the same pair is already there) and no object3D changes.
C8_RegisterAppends ==
  last.op = "register" =>
    /\ pairs = Append(pre.pairs, Link(last.object3D, last.path))
    /\ nodes = pre.nodes
    /\ last.outcome = "returned"

\* register(node, path) has run on a registry that already held that very pair
\* and a pair of another object3D.
C8_Witness ==
  /\ last.op = "register"
  /\ \E k \in DOMAIN pre.pairs : pre.pairs[k] = Link(last.object3D, last.path)
  /\ \E k \in DOMAIN pre.pairs : pre.pairs[k].object3D # last.object3D

\* C9: a tick() that meets no user-input system leaves the registry as it was;
\* the pairs it held stay at the front of the registry until they are
\* unregistered; and a tick() that returns once the user-input system is there
\* writes, for each of those pairs whose path has a pose, that pose to the
\* pair's object3D, without the pair being registered again.
C9_RecoversOnLaterTick ==
  /\ (last.op = "tick" /\ ~pre.userinput.available) => pairs = pre.pairs
  /\ Len(stale) <= Len(pairs)
  /\ \A k \in DOMAIN stale : k <= Len(pairs) => pairs[k] = stale[k]
  /\ (TickReturned /\ pre.userinput.available) =>
       \A k \in DOMAIN stale :
         truthy(Answer(stale[k].path)) =>
           /\ \E j \in DOMAIN applied :
                applied[j] = [object3D |-> stale[k].object3D, matrix |-> Answer(stale[k].path)]
           /\ (\A j \in Answered(pairs) : j > k => pairs[j].object3D # pairs[k].object3D) =>
                Posed(nodes[stale[k].object3D], Answer(stale[k].path))

\* A tick() raised for want of the user-input system while two pairs were
\* registered; a later tick() has returned and posed the object3D of one of them.
C9_Witness ==
  /\ TickReturned
  /\ pre.userinput.available
  /\ Len(stale) >= 2
  /\ \E k \in DOMAIN stale :
       /\ truthy(Answer(stale[k].path))
       /\ Posed(nodes[stale[k].object3D], Answer(stale[k].path))
       /\ ~pre.nodes[stale[k].object3D].matrixIsModified

\* The writes a full sweep of ps makes: one per pair whose path has a pose, in
\* registry order.
RECURSIVE Writes(_)
Writes(ps) ==
  IF ps = << >> THEN << >>
  ELSE IF truthy(Answer(Head(ps).path))
    THEN << [object3D |-> Head(ps).object3D, matrix |-> Answer(Head(ps).path)] >>
           \o Writes(Tail(ps))
  ELSE Writes(Tail(ps))

\* C10: a path without a pose skips its pair and nothing else: a tick() that
\* returns has looked up every pair and written the pose of every pair whose
\* path has one, also behind pairs without a pose, and an object3D none of
\* whose pairs has a pose is as it was before the tick().
C10_AbsentSkipsOneLink ==
  (TickReturned /\ pre.userinput.available) =>
    /\ VisitedLinks = pairs
    /\ applied = Writes(pairs)
    /\ \A k \in Answered(pairs) :
         (\A j \in Answered(pairs) : j > k => pairs[j].object3D # pairs[k].object3D) =>
           nodes[pairs[k].object3D].matrix = Answer(pairs[k].path)
    /\ \A o \in Nodes :
         (\A k \in Matches(pairs, o) : k \notin Answered(pairs)) => nodes[o] = pre.nodes[o]

\* tick() has returned on a registry whose first pair had no pose, and so was
\* skipped with its object3D left alone, and whose later pair of another
\* object3D had one, which was written.
C10_Witness ==
  /\ TickReturned
  /\ pre.userinput.available
  /\ Len(pairs) >= 2
  /\ 1 \notin Answered(pairs)
  /\ Matches(pairs, pairs[1].object3D) = {1}
  /\ \E k \in Answered(pairs) :
       /\ k > 1
       /\ nodes[pairs[k].object3D] # pre.nodes[pairs[k].object3D]
       /\ nodes[pairs[k].object3D].matrix = Answer(pairs[k].path)

\* C11: unregister(N) removes by object3D identity only: every pair of another
\* object3D, also one that shares its path with a pair of N, is still in the
\* registry afterwards, with its path, and in the same relative order.
C11_UnregisterKeepsOthers ==
  last.op = "unregister" =>
    /\ \A k \in DOMAIN pairs : pairs[k].object3D # last.object3D
    /\ \A o \in Nodes \ {last.object3D} :
         SelectSeq(pairs, LAMBDA p : p.object3D = o) =
           SelectSeq(pre.pairs, LAMBDA p : p.object3D = o)
    /\ Len(pairs) = Len(pre.pairs) - Cardinality(Matches(pre.pairs, last.object3D))
    /\ pairs = SelectSeq(pre.pairs, LAMBDA p : p.object3D # last.object3D)

\* unregister(N) has run on a registry that held a pair of N between two pairs
\* of another object3D with different paths, one of them N's path.
C11_Witness ==
  /\ last.op = "unregister"
  /\ Len(pre.pairs) = 3
  /\ pre.pairs[2].object3D = last.object3D
  /\ pre.pairs[1].object3D # last.object3D
  /\ pre.pairs[3].object3D # last.object3D
  /\ pre.pairs[1].path # pre.pairs[3].path
  /\ \E k \in {1, 3} : pre.pairs[k].path = pre.pairs[2].path

\* C12: tick() neither adds, removes, reorders nor rewrites a pair: while a
\* tick() whose provider calls nothing back runs, and after it has returned or
\* raised, the registry is pair for pair the registry the tick() started with,
\* whether the provider has poses, has none, or is not there.
C12_TickKeepsRegistry ==
  last.op = "tick" => pairs = pre.pairs

\* tick() has returned on a registry of three pairs of which one path had a
\* pose and another had none.
C12_Witness ==
  /\ TickReturned
  /\ Len(pairs) = 3
  /\ Answered(pairs) # {}
  /\ Answered(pairs) # DOMAIN pairs

\* States an object3D can be in before a tick(): new, posed by an earlier
\* tick(), or moved by another system without its matrix being recomputed.
PriorNodes ==
  { FreshNode,
    write_pose(FreshNode, PoseA),
    write_pose(FreshNode, PoseB),
    [ matrix |-> Identity,
      position |-> << 7, 7, 7 >>, quaternion |-> << 1, 0, 0, 0 >>, scale |-> << 3, 3, 3 >>,
      matrixIsModified |-> FALSE, matrixWorldNeedsUpdate |-> TRUE ] }

\* C13: what tick() leaves in an object3D is a function of the pose alone: after
\* a tick() the object3D of the last pair with a pose T is in the very state the
\* loop body would have left it in had it started in any other state.
C13_WriteIgnoresPriorState ==
  TickReturned =>
    \A k \in Answered(pairs) :
      (\A j \in Answered(pairs) : j > k => pairs[j].object3D # pairs[k].object3D) =>
        \A prior \in PriorNodes :
          nodes[pairs[k].object3D] =
            tick_body([n \in Nodes |-> prior], pairs, k - 1, Answer(pairs[k].path))
              [pairs[k].object3D]

\* tick() has returned after writing a pose to an object3D that an earlier
\* tick() had left with another pose, and to a new object3D.
C13_Witness ==
  /\ TickReturned
  /\ \E k \in Answered(pairs) :
       /\ pre.nodes[pairs[k].object3D] \in PriorNodes \ {FreshNode}
       /\ pre.nodes[pairs[k].object3D].matrix # Answer(pairs[k].path)
       /\ nodes[pairs[k].object3D].matrix = Answer(pairs[k].path)
  /\ \E k \in Answered(pairs) :
       /\ pre.nodes[pairs[k].object3D] = FreshNode
       /\ nodes[pairs[k].object3D] # FreshNode

\* C14: with the registry and the provider's answers unchanged, a second tick()
\* leaves every object3D as the first left it: the object3Ds a tick() returns
\* with are those of one sweep, and one more sweep over them changes nothing.
C14_TickIdempotent ==
  (TickReturned /\ pre.userinput.available) =>
    /\ nodes = tick_sweep(pre.nodes, pairs, pre.userinput.frame, 0)
    /\ tick_sweep(nodes, pairs, pre.userinput.frame, 0) = nodes

\* tick() has returned after changing an object3D that is registered twice,
\* with paths that had different poses, and another object3D.
C14_Witness ==
  /\ TickReturned
  /\ pre.userinput.available
  /\ \A o \in Nodes : nodes[o] # pre.nodes[o]
  /\ \E k1, k2 \in Answered(pairs) :
       /\ k1 < k2
       /\ pairs[k1].object3D = pairs[k2].object3D
       /\ Answer(pairs[k1].path) # Answer(pairs[k2].path)

\* C15: tick() changes no field of an object3D that has no pair in the registry
\* the tick() runs on; in particular, of an object3D that was unregistered and
\* not registered again, also while the path it was registered with has a pose.
C15_TickSparesUnregistered ==
  last.op = "tick" =>
    \A o \in Nodes :
      (o \in gone \/ Matches(pre.pairs, o) = {}) => nodes[o] = pre.nodes[o]

\* tick() has returned after writing a pose to a registered object3D and writing
\* none to an object3D that an earlier tick() had posed and that was unregistered
\* since, while every path has a pose.
C15_Witness ==
  /\ TickReturned
  /\ \A p \in Paths : truthy(Answer(p))
  /\ \E o \in gone :
       /\ nodes[o].matrixIsModified
       /\ \A p \in Paths : nodes[o].matrix # Answer(p)
  /\ \E o \in Nodes \ gone : nodes[o] # pre.nodes[o]

\* C16: a tick() that returns with the user-input system there has made one
\* lookup per pair of the registry, in registry order, each with that pair's
\* path, also for a pair that is there twice and for pairs sharing a path: as
\* many lookups as pairs.
C16_OneLookupPerLink ==
  (TickReturned /\ pre.userinput.available) =>
    /\ Len(visited) = Len(pairs)
    /\ \A k \in DOMAIN visited :
         /\ visited[k].link = pairs[k]
         /\ visited[k].matrix = Answer(pairs[k].path)

\* tick() has returned after three lookups on a registry that holds one pair
\* twice and a pair of another object3D with the same path.
C16_Witness ==
  /\ TickReturned
  /\ pre.userinput.available
  /\ Len(visited) = 3
  /\ \E k1, k2 \in DOMAIN pairs : k1 # k2 /\ pairs[k1] = pairs[k2]
  /\ \A k1, k2 \in DOMAIN pairs : pairs[k1].path = pairs[k2].path
  /\ \E k1, k2 \in DOMAIN pairs : pairs[k1].object3D # pairs[k2].object3D

====
